---- MODULE Spec2Model ----
(***************************************************************************)
(* Hydrogen-atom analytical evaluator (src/src/wavefunctions.py) and the   *)
(* transition-energy helper of src/examples/energy_levels.py.              *)
(*                                                                         *)
(* The library is a set of pure functions.  A behaviour of this model is a *)
(* sequence of calls: from "idle" one function is called with arguments    *)
(* drawn from bounded sets, the call ends in "done" with its outcome (a    *)
(* returned value or a raised exception), and Return goes back to "idle".  *)
(*                                                                         *)
(* Python floats are modelled by exact rationals <<num, den>> (den > 0,    *)
(* lowest terms) wherever the code evaluates a closed formula, and by      *)
(* enclosures <<lo, hi>> between two binary floats of 30 bits, rounded     *)
(* outwards, where it evaluates the radial function and its integral.      *)
(***************************************************************************)
EXTENDS Integers, Sequences, FiniteSets, TLC

VARIABLES pc, call, out, prev, grid

vars == <<pc, call, out, prev, grid>>

(***************************************************************************)
(* Bounds of the model.                                                    *)
(***************************************************************************)
MaxN == 5
MaxNeg == 2
MaxLevel == 4
MaxAngle == 2
MaxR == 4

QN == (0 - MaxNeg)..MaxN
Levels == (0 - 1)..MaxLevel
Angles == 0..MaxAngle
RSamples == {<<k, 2>> : k \in (0 - 1)..MaxR}

(***************************************************************************)
(* Exact rational arithmetic.                                              *)
(***************************************************************************)
Abs(x) == IF x < 0 THEN 0 - x ELSE x

RECURSIVE GCD(_, _)
GCD(a, b) == IF b = 0 THEN a ELSE GCD(b, a % b)

Rat(p, q) ==
  LET g == GCD(Abs(p), Abs(q))
      s == IF q < 0 THEN 0 - 1 ELSE 1
  IN  <<s * (p \div g), s * (q \div g)>>

RatInt(k) == <<k, 1>>

RatNeg(a) == <<0 - a[1], a[2]>>

RatAdd(a, b) ==
  LET g == GCD(a[2], b[2])
      L == (a[2] \div g) * b[2]
  IN  Rat(a[1] * (L \div a[2]) + b[1] * (L \div b[2]), L)

RatSub(a, b) == RatAdd(a, RatNeg(b))

RatMul(a, b) ==
  LET g1 == GCD(Abs(a[1]), b[2])
      g2 == GCD(Abs(b[1]), a[2])
  IN  IF a[1] = 0 \/ b[1] = 0 THEN <<0, 1>>
      ELSE <<(a[1] \div g1) * (b[1] \div g2), (a[2] \div g2) * (b[2] \div g1)>>

\* a / b for b # 0
RatDiv(a, b) ==
  IF b[1] < 0 THEN RatMul(a, <<0 - b[2], 0 - b[1]>>)
  ELSE RatMul(a, <<b[2], b[1]>>)

RatLt(a, b) ==
  LET g == GCD(a[2], b[2])
  IN  a[1] * (b[2] \div g) < b[1] * (a[2] \div g)

RatLe(a, b) == a = b \/ RatLt(a, b)

RatZero == <<0, 1>>

(***************************************************************************)
(* Enclosures of real numbers.  Where the code evaluates exp, a Laguerre   *)
(* polynomial and a quadrature sum, a float is modelled by an interval     *)
(* <<lo, hi>> of binary numbers that contains the real value the code      *)
(* rounds.  A binary number is <<m, e>> = m * 2^e with m = 0 or            *)
(* 2^29 <= m < 2^30; Dn operators round towards 0, Up operators away.      *)
(* All numbers here are >= 0; signs are carried beside them.               *)
(***************************************************************************)
MantBits == 30

FB == 2^MantBits
FH == 2^(MantBits - 1)
FK == 2^15

FZero == <<0, 0>>

RECURSIVE Norm(_, _)
Norm(m, e) ==
  IF m = 0 THEN FZero
  ELSE IF m >= FH THEN <<m, e>>
  ELSE IF m < 2^14 THEN Norm(m * 2^15, e - 15)
  ELSE IF m < 2^22 THEN Norm(m * 2^7, e - 7)
  ELSE IF m < 2^26 THEN Norm(m * 2^3, e - 3)
  ELSE Norm(m * 2, e - 1)

NormDn(m, e) == IF m >= FB THEN <<m \div 2, e + 1>> ELSE Norm(m, e)

NormUp(m, e) ==
  IF m >= FB
  THEN IF (m \div 2) + (m % 2) >= FB THEN <<FH, e + 2>>
       ELSE <<(m \div 2) + (m % 2), e + 1>>
  ELSE Norm(m, e)

\* floor(a * b / 2^30) for 0 <= a, b < 2^30, without leaving 32 bits
Hi30(a, b) ==
  LET a1 == a \div FK
      a0 == a % FK
      b1 == b \div FK
      b0 == b % FK
  IN  a1 * b1 + ((a1 * b0 + a0 * b1 + ((a0 * b0) \div FK)) \div FK)

FMulDn(a, b) ==
  IF a[1] = 0 \/ b[1] = 0 THEN FZero
  ELSE NormDn(Hi30(a[1], b[1]), a[2] + b[2] + MantBits)

FMulUp(a, b) ==
  IF a[1] = 0 \/ b[1] = 0 THEN FZero
  ELSE NormUp(Hi30(a[1], b[1]) + 1, a[2] + b[2] + MantBits)

FLt(a, b) ==
  IF b[1] = 0 THEN FALSE
  ELSE IF a[1] = 0 THEN TRUE
  ELSE a[2] < b[2] \/ (a[2] = b[2] /\ a[1] < b[1])

FLe(a, b) == a = b \/ FLt(a, b)

FMax(a, b) == IF FLt(a, b) THEN b ELSE a

Shr(m, d) == IF d > MantBits THEN 0 ELSE m \div (2^d)

ShrUp(m, d) == IF d > MantBits THEN 1 ELSE (m + 2^d - 1) \div (2^d)

FAddDn(a, b) ==
  IF a[1] = 0 THEN b
  ELSE IF b[1] = 0 THEN a
  ELSE IF a[2] >= b[2] THEN NormDn(a[1] + Shr(b[1], a[2] - b[2]), a[2])
  ELSE NormDn(b[1] + Shr(a[1], b[2] - a[2]), b[2])

FAddUp(a, b) ==
  IF a[1] = 0 THEN b
  ELSE IF b[1] = 0 THEN a
  ELSE IF a[2] >= b[2] THEN NormUp(a[1] + ShrUp(b[1], a[2] - b[2]), a[2])
  ELSE NormUp(b[1] + ShrUp(a[1], b[2] - a[2]), b[2])

\* a lower bound of max(a - b, 0)
FSubDn(a, b) ==
  IF b[1] = 0 THEN a
  ELSE IF ~FLt(b, a) THEN FZero
  ELSE LET m == a[1] - ShrUp(b[1], a[2] - b[2])
       IN  IF m <= 0 THEN FZero ELSE Norm(m, a[2])

\* an upper bound of a - b, for a >= b
FSubUp(a, b) ==
  IF b[1] = 0 THEN a
  ELSE IF ~FLt(b, a) THEN FZero
  ELSE Norm(a[1] - Shr(b[1], a[2] - b[2]), a[2])

\* One digit (base 2^15) of a long division by d, 2^29 <= d < 2^30: for
\* 0 <= r < d the pair <<q, rem>> with r * 2^15 = q * d + rem, 0 <= rem < d.
\* The digit is estimated from the leading half of d and corrected.
DivEstimate(r, d1) == IF r \div d1 > FK - 1 THEN FK - 1 ELSE r \div d1

DivCorrect(qh, rem, d) ==
  IF rem >= 0 THEN <<qh, rem>>
  ELSE IF rem + d >= 0 THEN <<qh - 1, rem + d>>
  ELSE <<qh - 2, (rem + d) + d>>

DivRemainder(r, d, qh) ==
  DivCorrect(qh, (r - qh * (d \div FK)) * FK - qh * (d % FK), d)

DivDigit(r, d) == DivRemainder(r, d, DivEstimate(r, d \div FK))

DivDigits(q0, s1, d) == ((q0 * FK + s1[1]) * FK) + DivDigit(s1[2], d)[1]

\* floor(a.m * 2^30 / b.m)
DivQ(a, b) == DivDigits(a[1] \div b[1], DivDigit(a[1] % b[1], b[1]), b[1])

FDivDn(a, b) ==
  IF a[1] = 0 THEN FZero ELSE NormDn(DivQ(a, b), a[2] - b[2] - MantBits)

FDivUp(a, b) ==
  IF a[1] = 0 THEN FZero ELSE NormUp(DivQ(a, b) + 1, a[2] - b[2] - MantBits)

FromInt(k) == Norm(k, 0)

FOne == FromInt(1)

FScale(a, s) == IF a[1] = 0 THEN FZero ELSE <<a[1], a[2] + s>>

\* Intervals <<lo, hi>>
IZero == <<FZero, FZero>>

IInt(k) == <<FromInt(k), FromInt(k)>>

IMul(x, y) == <<FMulDn(x[1], y[1]), FMulUp(x[2], y[2])>>

IAdd(x, y) == <<FAddDn(x[1], y[1]), FAddUp(x[2], y[2])>>

ISub(x, y) == <<FSubDn(x[1], y[2]), FSubUp(x[2], y[1])>>

IDiv(x, y) == <<FDivDn(x[1], y[2]), FDivUp(x[2], y[1])>>

IRat(p, q) == IDiv(IInt(p), IInt(q))

IScale(x, s) == <<FScale(x[1], s), FScale(x[2], s)>>

RECURSIVE IPow(_, _)
IPow(x, j) == IF j = 0 THEN IInt(1) ELSE IMul(IPow(x, j - 1), x)

(***************************************************************************)
(* np.exp(-y) for y >= 0: exp(-y) = exp(-y / 2^ExpSquarings)^(2^Exp-       *)
(* Squarings), the inner exponential enclosed by its alternating Taylor    *)
(* series in Horner form, 1 - t/1 (1 - t/2 (1 - t/3 ( ... ))).             *)
(***************************************************************************)
ExpTerms == 6
ExpSquarings == 10

Recip == [j \in 1..ExpTerms |-> IRat(1, j)]

RECURSIVE HornerLo(_, _), HornerUp(_, _)
HornerLo(t, j) ==
  IF j > ExpTerms THEN FZero
  ELSE FSubDn(FOne, FMulUp(FMulUp(t, Recip[j][2]), HornerUp(t, j + 1)))

HornerUp(t, j) ==
  IF j > ExpTerms THEN FOne
  ELSE FSubUp(FOne, FMulDn(FMulDn(t, Recip[j][1]), HornerLo(t, j + 1)))

RECURSIVE SqDn(_, _)
SqDn(a, c) == IF a[1] = 0 \/ c = 0 THEN a ELSE SqDn(FMulDn(a, a), c - 1)

RECURSIVE SqUp(_, _)
SqUp(a, c) == IF a[1] = 0 \/ c = 0 THEN a ELSE SqUp(FMulUp(a, a), c - 1)

ExpNeg(y) ==
  <<SqDn(HornerLo(FScale(y[2], 0 - ExpSquarings), 1), ExpSquarings),
    SqUp(HornerUp(FScale(y[1], 0 - ExpSquarings), 1), ExpSquarings)>>

(***************************************************************************)
(* Outcomes of a call.                                                     *)
(*   kind   "value" | "ValueError" | "ZeroDivisionError"                   *)
(*   form   how val is to be read: "rat" the number val, "sqrt" the square *)
(*          root of val, "nan" not-a-number, "pair" the tuple (val, val2), *)
(*          "sph" the value of the special-function routine applied to sph *)
(*          "radial" the radial wavefunction R, "psi" the product of R and *)
(*          the special-function value of sph, "interval" a float in iv    *)
(*   R      a radial wavefunction value sign * sqrt(nsq) * mag, with nsq   *)
(*          and mag enclosures (sign 0: the enclosure of mag contains 0)   *)
(*   ecalls how many times energy_eigenvalue was entered during the call   *)
(***************************************************************************)
NoSph == [m |-> 0, n |-> 0, theta |-> 0, phi |-> 0]

NoR == [sign |-> 0, nsq |-> IZero, mag |-> IZero]

NoOut ==
  [kind |-> "none", form |-> "none", val |-> RatZero, val2 |-> RatZero,
   sph |-> NoSph, R |-> NoR, iv |-> IZero, ecalls |-> 0]

Raise(e, k) == [NoOut EXCEPT !.kind = e, !.ecalls = k]

Ret(v, k) == [NoOut EXCEPT !.kind = "value", !.form = "rat", !.val = v, !.ecalls = k]

NoCall ==
  [fn |-> "none", n |-> 0, l |-> 0, m |-> 0, theta |-> 0, phi |-> 0,
   r |-> RatZero, flag |-> TRUE, V_func |-> "None"]

NoPrev == [fn |-> "none", n |-> 0, l |-> 0, val |-> RatZero]

(***************************************************************************)
(* Physical constants (atomic units).                                      *)
(***************************************************************************)
BOHR_RADIUS == 1

\* 1 Hartree = 27.211 eV
HARTREE_EV == <<27211, 1000>>

\* hc in eV nm
hc == 1240

(***************************************************************************)
(* energy_eigenvalue(n): -1.0 / (2 * n**2), ValueError when n < 1.         *)
(***************************************************************************)
energy_mutant_formula(n) ==
  IF n < 1 THEN Raise("ValueError", 1)
  ELSE Ret(RatDiv(RatInt(0 - 1), RatInt(2 * n)), 1)

energy_mutant_guard(n) ==
  IF n < 0 THEN Raise("ValueError", 1)
  ELSE IF 2 * n * n = 0 THEN Raise("ZeroDivisionError", 1)
  ELSE Ret(RatDiv(RatInt(0 - 1), RatInt(2 * n * n)), 1)

energy_mutant_sign(n) ==
  IF n < 1 THEN Raise("ValueError", 1)
  ELSE Ret(RatDiv(RatInt(1), RatInt(2 * n * n)), 1)

energy_eigenvalue(n) ==
  IF n < 1 THEN Raise("ValueError", 1)
  ELSE Ret(RatDiv(RatInt(0 - 1), RatInt(2 * n * n)), 1)

(***************************************************************************)
(* expectation_value_r(n, l):                                              *)
(*   BOHR_RADIUS * n**2 * (1.5 - l*(l+1)/(2*n**2))                         *)
(* No validation; the true division raises ZeroDivisionError when n = 0.   *)
(***************************************************************************)
expectation_r_mutant(n, l) ==
  IF 2 * n * n = 0 THEN Raise("ZeroDivisionError", 0)
  ELSE Ret(RatMul(RatInt(BOHR_RADIUS * n * n),
                  RatSub(<<3, 2>>, RatDiv(RatInt(l * l), RatInt(2 * n * n)))), 0)

expectation_r_mutant_sign(n, l) ==
  IF 2 * n * n = 0 THEN Raise("ZeroDivisionError", 0)
  ELSE Ret(RatMul(RatInt(BOHR_RADIUS * n * n),
                  RatAdd(<<3, 2>>, RatDiv(RatInt(l * (l + 1)), RatInt(2 * n * n)))), 0)

expectation_value_r(n, l) ==
  IF 2 * n * n = 0 THEN Raise("ZeroDivisionError", 0)
  ELSE Ret(RatMul(RatInt(BOHR_RADIUS * n * n),
                  RatSub(<<3, 2>>, RatDiv(RatInt(l * (l + 1)), RatInt(2 * n * n)))), 0)

(***************************************************************************)
(* expectation_value_r_squared(n, l):                                      *)
(*   (BOHR_RADIUS * n)**2 * (n**2 * (5/2 + 1) - 3*l*(l+1)/2)               *)
(***************************************************************************)
expectation_value_r_squared(n, l) ==
  Ret(RatMul(RatInt((BOHR_RADIUS * n) * (BOHR_RADIUS * n)),
             RatSub(RatMul(RatInt(n * n), RatAdd(<<5, 2>>, RatInt(1))),
                    RatDiv(RatInt(3 * l * (l + 1)), RatInt(2)))), 0)

(***************************************************************************)
(* uncertainty_r(n, l): sqrt(<r^2> - <r>^2).  numpy's sqrt of a negative   *)
(* float returns nan (with a warning), it does not raise.                  *)
(***************************************************************************)
uncertainty_r(n, l) ==
  LET r_sq == expectation_value_r_squared(n, l)
      r == expectation_value_r(n, l)
      d == RatSub(r_sq.val, RatMul(r.val, r.val))
  IN  IF r.kind # "value" THEN r
      ELSE IF d[1] < 0 THEN [Ret(d, 0) EXCEPT !.form = "nan"]
      ELSE [Ret(d, 0) EXCEPT !.form = "sqrt"]

(***************************************************************************)
(* spherical_harmonic(theta, phi, l, m): ValueError when abs(m) > l, else  *)
(* scipy's sph_harm(m, l, phi, theta), whose parameters are (order m,      *)
(* degree n, azimuthal angle, polar angle).  Angles are multiples of pi/4. *)
(***************************************************************************)
sph_harm(m, n, azimuth, polar) ==
  [NoOut EXCEPT !.kind = "value", !.form = "sph",
                !.sph = [m |-> m, n |-> n, theta |-> azimuth, phi |-> polar]]

spherical_harmonic_mutant(theta, phi, l, m) ==
  IF m > l THEN Raise("ValueError", 0)
  ELSE sph_harm(m, l, phi, theta)

spherical_harmonic(theta, phi, l, m) ==
  IF Abs(m) > l THEN Raise("ValueError", 0)
  ELSE sph_harm(m, l, phi, theta)

(***************************************************************************)
(* hydrogen_radial(r, n, l, normalized)                                    *)
(*   norm = sqrt((2.0/n)**3 * factorial(n-l-1) / (2*n*factorial(n+l)))     *)
(*   rho  = 2 * r / n                                                      *)
(*   L    = genlaguerre(n-l-1, 2*l+1)                                      *)
(*   R    = norm * exp(-rho/2) * rho**l * L(rho)                           *)
(* The parameter normalized is never read.                                 *)
(***************************************************************************)
RECURSIVE factorial(_)
factorial(k) == IF k <= 0 THEN 1 ELSE k * factorial(k - 1)

binom(a, b) == factorial(a) \div (factorial(b) * factorial(a - b))

\* the square of norm
norm_sq_mutant(n, l) ==
  IDiv(IMul(IPow(IRat(2, n), 3), IInt(factorial(n - l - 1))),
       IInt(factorial(n + l)))

norm_sq(n, l) ==
  IDiv(IMul(IPow(IRat(2, n), 3), IInt(factorial(n - l - 1))),
       IInt(2 * n * factorial(n + l)))

\* The generalized Laguerre polynomial L_k^(alpha)(x) =
\* sum_i (-1)^i binom(k + alpha, k - i) x^i / i!, as the sequence of the
\* absolute values of its coefficients (entry i + 1 belongs to x^i).
genlaguerre(k, alpha) ==
  [j \in 1..(k + 1) |-> IRat(binom(k + alpha, k - (j - 1)), factorial(j - 1))]

\* the sum of L[i] * x^(i-1) over the i in j..Len(L) with (i - 1) % 2 = par,
\* where xp = x^(j-1)
RECURSIVE polysum(_, _, _, _, _)
polysum(L, x, par, j, xp) ==
  IF j > Len(L) THEN IZero
  ELSE IF (j - 1) % 2 = par
       THEN IAdd(IMul(L[j], xp), polysum(L, x, par, j + 1, IMul(xp, x)))
       ELSE polysum(L, x, par, j + 1, IMul(xp, x))

\* np.asarray(r, dtype=float): the sign and the magnitude of r = <<p, q>>
asarray_sign(r) == IF r[1] < 0 THEN 0 - 1 ELSE IF r[1] = 0 THEN 0 ELSE 1

asarray_abs(r) == IRat(Abs(r[1]), r[2])

\* the sign of Pe - Po where the enclosures tell it, else 0
laguerre_sign(Pe, Po) ==
  IF FLe(Po[2], Pe[1]) THEN 1
  ELSE IF FLe(Pe[2], Po[1]) THEN 0 - 1
  ELSE 0

\* |Pe - Po|
laguerre_abs(Pe, Po, sign) ==
  IF sign = 1 THEN ISub(Pe, Po)
  ELSE IF sign = 0 - 1 THEN ISub(Po, Pe)
  ELSE <<FZero, FMax(FSubUp(Pe[2], Po[1]), FSubUp(Po[2], Pe[1]))>>

\* norm * np.exp(-rho / 2) * rho**l * L(rho) at rho = rs * ra: en encloses
\* exp(-ra/2), pw the power ra**l, Pe and Po the even and odd parts of L(ra)
radial_product(rs, l, nsq, en, pw, Pe, Po) ==
  IF rs < 0
  THEN [sign |-> IF l % 2 = 1 THEN 0 - 1 ELSE 1, nsq |-> nsq,
        mag |-> IMul(IMul(IDiv(IInt(1), en), pw), IAdd(Pe, Po))]
  ELSE [sign |-> laguerre_sign(Pe, Po), nsq |-> nsq,
        mag |-> IMul(IMul(en, pw), laguerre_abs(Pe, Po, laguerre_sign(Pe, Po)))]

radial_at(rs, rho, l, nsq, L) ==
  radial_product(rs, l, nsq, ExpNeg(IScale(rho, 0 - 1)), IPow(rho, l),
                 polysum(L, rho, 0, 1, IInt(1)), polysum(L, rho, 1, 1, IInt(1)))

\* rho = 2 * r / n for r = rs * ra, and R at it
radial_value(rs, ra, n, l, nsq, L) ==
  radial_at(rs, IDiv(IMul(IInt(2), ra), IInt(n)), l, nsq, L)

RetR(R) == [NoOut EXCEPT !.kind = "value", !.form = "radial", !.R = R]

RetI(x) == [NoOut EXCEPT !.kind = "value", !.form = "interval", !.iv = x]

hydrogen_radial_unnormalized(r, n, l, normalized) ==
  IF n < 1 \/ l < 0 \/ l >= n THEN Raise("ValueError", 0)
  ELSE RetR(radial_value(asarray_sign(r), asarray_abs(r), n, l,
                         IF normalized THEN norm_sq(n, l) ELSE IInt(1),
                         genlaguerre(n - l - 1, 2 * l + 1)))

hydrogen_radial_mutant(r, n, l, normalized) ==
  IF n < 1 \/ l >= n THEN Raise("ValueError", 0)
  ELSE IF l < 0 THEN RetR(NoR)
  ELSE RetR(radial_value(asarray_sign(r), asarray_abs(r), n, l,
                         norm_sq(n, l), genlaguerre(n - l - 1, 2 * l + 1)))

hydrogen_radial(r, n, l, normalized) ==
  IF n < 1 \/ l < 0 \/ l >= n THEN Raise("ValueError", 0)
  ELSE RetR(radial_value(asarray_sign(r), asarray_abs(r), n, l,
                         norm_sq(n, l), genlaguerre(n - l - 1, 2 * l + 1)))

\* r**2 * np.abs(R)**2
density(ra, R) == IMul(IMul(ra, ra), IMul(R.nsq, IMul(R.mag, R.mag)))

(***************************************************************************)
(* hydrogen_wavefunction(r, theta, phi, n, l, m, normalize): R * Y         *)
(***************************************************************************)
\* R * Y, once both are there
psi_of(R, Y) ==
  IF R.kind # "value" THEN R
  ELSE IF Y.kind # "value" THEN Y
  ELSE [NoOut EXCEPT !.kind = "value", !.form = "psi", !.R = R.R, !.sph = Y.sph]

hydrogen_wavefunction(r, theta, phi, n, l, m, normalize) ==
  psi_of(hydrogen_radial(r, n, l, normalize), spherical_harmonic(theta, phi, l, m))

(***************************************************************************)
(* probability_density_radial(r, n, l): r**2 * |R|**2                      *)
(***************************************************************************)
radial_density(ra, R) ==
  IF R.kind # "value" THEN R ELSE RetI(density(ra, R.R))

probability_density_radial(r, n, l) ==
  radial_density(asarray_abs(r), hydrogen_radial(r, n, l, TRUE))

(***************************************************************************)
(* normalization_check(n, l, r_max=50, num_points=1000): the trapezoid     *)
(* rule over r = linspace(0, r_max, num_points) applied to r**2 * |R|**2.  *)
(***************************************************************************)
R_MAX == 50
NUM_POINTS == 1000

\* element k (from 0) of np.linspace(0, stop, num)
linspace(stop, num, k) == IRat(stop * k, num - 1)

NoGrid == [k |-> 0, r |-> IZero, P |-> IZero, acc |-> IZero, nsq |-> IZero, L |-> <<>>]

\* one term of scipy's trapezoid: d * (y[1:] + y[:-1]) / 2.0
trapezoid_term(r0, r1, P0, P1) == IScale(IMul(ISub(r1, r0), IAdd(P1, P0)), 0 - 1)

(***************************************************************************)
(* calculate_transition_energy(n_upper, n_lower)                           *)
(***************************************************************************)
transition_mutant(n_upper, n_lower) ==
  IF n_upper < n_lower THEN Raise("ValueError", 0)
  ELSE
    LET eu == energy_eigenvalue(n_upper)
        el == energy_eigenvalue(n_lower)
    IN  IF eu.kind # "value" THEN Raise(eu.kind, 1)
        ELSE IF el.kind # "value" THEN Raise(el.kind, 2)
        ELSE
          LET E_upper == RatMul(eu.val, HARTREE_EV)
              E_lower == RatMul(el.val, HARTREE_EV)
              E_trans == RatSub(E_upper, E_lower)
          IN  IF E_trans[1] = 0 THEN Raise("ZeroDivisionError", 2)
              ELSE [Ret(E_trans, 2) EXCEPT
                      !.form = "pair", !.val2 = RatDiv(RatInt(hc), E_trans)]

calculate_transition_energy(n_upper, n_lower) ==
  IF n_upper <= n_lower THEN Raise("ValueError", 0)
  ELSE
    LET eu == energy_eigenvalue(n_upper)
        el == energy_eigenvalue(n_lower)
    IN  IF eu.kind # "value" THEN Raise(eu.kind, 1)
        ELSE IF el.kind # "value" THEN Raise(el.kind, 2)
        ELSE
          LET E_upper == RatMul(eu.val, HARTREE_EV)
              E_lower == RatMul(el.val, HARTREE_EV)
              E_trans == RatSub(E_upper, E_lower)
          IN  IF E_trans[1] = 0 THEN Raise("ZeroDivisionError", 2)
              ELSE [Ret(E_trans, 2) EXCEPT
                      !.form = "pair", !.val2 = RatDiv(RatInt(hc), E_trans)]

(***************************************************************************)
(* src/src/schrodinger.py: the solver placeholders.                        *)
(***************************************************************************)
\* what a caller may pass as V_func
Potentials == {"None", "callable"}

\* return None, E
RetNoneE(E) ==
  [NoOut EXCEPT !.kind = "value", !.form = "None, E", !.val = E, !.ecalls = 1]

\* the end of a body without a return statement: None
RetNone == [NoOut EXCEPT !.kind = "value", !.form = "None", !.ecalls = 1]

\* E = energy_eigenvalue(n), then what the placeholder does with it
after_energy(E, result) == IF E.kind # "value" THEN Raise(E.kind, 1) ELSE result

solve_radial_mutant(r, n, l, V_func) ==
  after_energy(energy_eigenvalue(n), RetNone)

\* V_func is replaced by the Coulomb lambda when None and never called
solve_radial_schrodinger(r, n, l, V_func) ==
  after_energy(energy_eigenvalue(n), RetNoneE(energy_eigenvalue(n).val))

\* RadialSolver(l_value).shooting_method(n)
shooting_method(l_value, n) == after_energy(energy_eigenvalue(n), RetNone)

(***************************************************************************)
(* The calls.                                                              *)
(***************************************************************************)
Init ==
  /\ pc = "idle"
  /\ call = NoCall
  /\ out = NoOut
  /\ prev = NoPrev
  /\ grid = NoGrid

\* Closed-form scalars: a caller may call again at once and compare the two
\* results (tests/test_wavefunctions.py does); prev is the first of the two.
Scalars == {"energy_eigenvalue", "expectation_value_r"}

CanCallScalar ==
  pc = "idle" \/ (pc = "done" /\ call.fn \in Scalars /\ prev = NoPrev)

Kept ==
  IF pc = "done" /\ call.fn \in Scalars /\ out.kind = "value"
  THEN [fn |-> call.fn, n |-> call.n, l |-> call.l, val |-> out.val]
  ELSE NoPrev

Call_energy_eigenvalue ==
  \E n \in QN :
    /\ CanCallScalar
    /\ pc' = "done"
    /\ call' = [NoCall EXCEPT !.fn = "energy_eigenvalue", !.n = n]
    /\ out' = energy_eigenvalue(n)
    /\ prev' = Kept
    /\ UNCHANGED grid

Call_expectation_value_r ==
  \E n \in QN, l \in QN :
    /\ CanCallScalar
    /\ pc' = "done"
    /\ call' = [NoCall EXCEPT !.fn = "expectation_value_r", !.n = n, !.l = l]
    /\ out' = expectation_value_r(n, l)
    /\ prev' = Kept
    /\ UNCHANGED grid

Call_hydrogen_radial ==
  \E r \in RSamples, n \in QN, l \in QN, normalized \in BOOLEAN :
    /\ pc = "idle"
    /\ pc' = "done"
    /\ call' = [NoCall EXCEPT !.fn = "hydrogen_radial", !.r = r, !.n = n, !.l = l,
                              !.flag = normalized]
    /\ \E R \in {hydrogen_radial(r, n, l, normalized)} : out' = R
    /\ prev' = NoPrev
    /\ UNCHANGED grid

Call_hydrogen_wavefunction ==
  \E r \in {<<1, 2>>}, theta \in Angles, n \in QN, l \in QN, m \in QN,
     normalize \in BOOLEAN :
    /\ pc = "idle"
    /\ pc' = "done"
    /\ call' = [NoCall EXCEPT !.fn = "hydrogen_wavefunction", !.r = r, !.n = n,
                              !.l = l, !.m = m, !.theta = theta, !.phi = MaxAngle,
                              !.flag = normalize]
    /\ \E psi \in {hydrogen_wavefunction(r, theta, MaxAngle, n, l, m, normalize)} :
         out' = psi
    /\ prev' = NoPrev
    /\ UNCHANGED grid

Call_probability_density_radial ==
  \E r \in RSamples, n \in QN, l \in QN :
    /\ pc = "idle"
    /\ pc' = "done"
    /\ call' = [NoCall EXCEPT !.fn = "probability_density_radial", !.r = r, !.n = n,
                              !.l = l]
    /\ \E P \in {probability_density_radial(r, n, l)} : out' = P
    /\ prev' = NoPrev
    /\ UNCHANGED grid

\* normalization_check up to the first sample: r = linspace(...), the check
\* of the quantum numbers in hydrogen_radial, norm and L, and P at r[0].
Call_normalization_check ==
  \E n \in QN, l \in QN :
    /\ pc = "idle"
    /\ call' = [NoCall EXCEPT !.fn = "normalization_check", !.n = n, !.l = l]
    /\ prev' = NoPrev
    /\ \E R0 \in {hydrogen_radial(RatZero, n, l, TRUE)} :
         IF R0.kind # "value"
         THEN /\ pc' = "done"
              /\ out' = R0
              /\ grid' = NoGrid
         ELSE \E r0 \in {linspace(R_MAX, NUM_POINTS, 0)} :
              \E P0 \in {density(r0, R0.R)} :
              \E L \in {genlaguerre(n - l - 1, 2 * l + 1)} :
                /\ pc' = "integrating"
                /\ out' = NoOut
                /\ grid' = [k |-> 0, r |-> r0, P |-> P0, acc |-> IZero,
                            nsq |-> R0.R.nsq, L |-> L]

\* normalization_check, the next sample: R and P at r[k+1] and the term of the
\* trapezoid sum between r[k] and r[k+1]; after the last one the sum is
\* returned.
TrapezoidStep ==
  /\ pc = "integrating"
  /\ \E k1 \in {grid.k + 1} :
     \E r1 \in {linspace(R_MAX, NUM_POINTS, k1)} :
     \E R1 \in {radial_value(1, r1, call.n, call.l, grid.nsq, grid.L)} :
     \E P1 \in {density(r1, R1)} :
     \E acc1 \in {IAdd(grid.acc, trapezoid_term(grid.r, r1, grid.P, P1))} :
       IF k1 = NUM_POINTS - 1
       THEN /\ pc' = "done"
            /\ out' = RetI(acc1)
            /\ grid' = NoGrid
       ELSE /\ pc' = "integrating"
            /\ out' = NoOut
            /\ grid' = [grid EXCEPT !.k = k1, !.r = r1, !.P = P1, !.acc = acc1]
  /\ UNCHANGED <<call, prev>>

Call_expectation_value_r_squared ==
  \E n \in QN, l \in QN :
    /\ pc = "idle"
    /\ pc' = "done"
    /\ call' = [NoCall EXCEPT !.fn = "expectation_value_r_squared", !.n = n, !.l = l]
    /\ out' = expectation_value_r_squared(n, l)
    /\ prev' = NoPrev
    /\ UNCHANGED grid

Call_uncertainty_r ==
  \E n \in QN, l \in QN :
    /\ pc = "idle"
    /\ pc' = "done"
    /\ call' = [NoCall EXCEPT !.fn = "uncertainty_r", !.n = n, !.l = l]
    /\ out' = uncertainty_r(n, l)
    /\ prev' = NoPrev
    /\ UNCHANGED grid

Call_spherical_harmonic ==
  \E l \in QN, m \in QN, theta \in Angles, phi \in Angles :
    /\ pc = "idle"
    /\ pc' = "done"
    /\ call' = [NoCall EXCEPT !.fn = "spherical_harmonic", !.l = l, !.m = m,
                              !.theta = theta, !.phi = phi]
    /\ out' = spherical_harmonic(theta, phi, l, m)
    /\ prev' = NoPrev
    /\ UNCHANGED grid

Call_calculate_transition_energy ==
  \E n_upper \in Levels, n_lower \in Levels :
    /\ pc = "idle"
    /\ pc' = "done"
    /\ call' = [NoCall EXCEPT !.fn = "calculate_transition_energy",
                              !.n = n_upper, !.l = n_lower]
    /\ out' = calculate_transition_energy(n_upper, n_lower)
    /\ prev' = NoPrev
    /\ UNCHANGED grid

Call_solve_radial_schrodinger ==
  \E r \in RSamples, n \in QN, l \in QN, V_func \in Potentials :
    /\ pc = "idle"
    /\ pc' = "done"
    /\ call' = [NoCall EXCEPT !.fn = "solve_radial_schrodinger", !.r = r, !.n = n,
                              !.l = l, !.V_func = V_func]
    /\ out' = solve_radial_schrodinger(r, n, l, V_func)
    /\ prev' = NoPrev
    /\ UNCHANGED grid

Call_shooting_method ==
  \E l_value \in QN, n \in QN :
    /\ pc = "idle"
    /\ pc' = "done"
    /\ call' = [NoCall EXCEPT !.fn = "shooting_method", !.n = n, !.l = l_value]
    /\ out' = shooting_method(l_value, n)
    /\ prev' = NoPrev
    /\ UNCHANGED grid

\* The call is over and its outcome consumed.
Return ==
  /\ pc = "done"
  /\ pc' = "idle"
  /\ prev' = NoPrev
  /\ call' = NoCall
  /\ out' = NoOut
  /\ UNCHANGED grid

\* The closed-form and pointwise evaluators.
Next ==
  \/ Call_energy_eigenvalue
  \/ Call_expectation_value_r
  \/ Call_expectation_value_r_squared
  \/ Call_uncertainty_r
  \/ Call_spherical_harmonic
  \/ Call_calculate_transition_energy
  \/ Call_hydrogen_radial
  \/ Call_hydrogen_wavefunction
  \/ Call_probability_density_radial
  \/ Return

Spec == Init /\ [][Next]_vars

\* The quadrature diagnostic.
NextGrid ==
  \/ Call_normalization_check
  \/ TrapezoidStep
  \/ Return

SpecGrid == Init /\ [][NextGrid]_vars

\* The whole library.
NextAll ==
  \/ Call_energy_eigenvalue
  \/ Call_expectation_value_r
  \/ Call_expectation_value_r_squared
  \/ Call_uncertainty_r
  \/ Call_spherical_harmonic
  \/ Call_calculate_transition_energy
  \/ Call_hydrogen_radial
  \/ Call_hydrogen_wavefunction
  \/ Call_probability_density_radial
  \/ Call_normalization_check
  \/ TrapezoidStep
  \/ Call_solve_radial_schrodinger
  \/ Call_shooting_method
  \/ Return

SpecAll == Init /\ [][NextAll]_vars

\* The solver placeholders of src/src/schrodinger.py.
NextSolver ==
  \/ Call_solve_radial_schrodinger
  \/ Call_shooting_method
  \/ Return

SpecSolver == Init /\ [][NextSolver]_vars

(***************************************************************************)
(* Which quantum numbers a call was given.                                 *)
(***************************************************************************)
ValidNL(n, l) == n >= 1 /\ 0 <= l /\ l < n

Done(f) == pc = "done" /\ call.fn = f

\* C1: for every integer n >= 1, energy_eigenvalue(n) returns exactly
\* -1/(2*n^2); in particular energy_eigenvalue(1) = -1/2.
C1_EnergyFormula ==
  (Done("energy_eigenvalue") /\ call.n >= 1) =>
    /\ out.kind = "value"
    /\ out.form = "rat"
    /\ out.val[2] > 0
    /\ out.val[1] * (2 * call.n * call.n) = (0 - 1) * out.val[2]
    /\ (call.n = 1 => out.val = <<0 - 1, 2>>)

C1_Witness ==
  Done("energy_eigenvalue") /\ call.n = 3 /\ out.kind = "value"
    /\ out.val = <<0 - 1, 18>>

\* C2: for every integer n < 1, energy_eigenvalue(n) raises ValueError and
\* returns no value.
C2_EnergyInvalid ==
  (Done("energy_eigenvalue") /\ call.n < 1) =>
    (out.kind = "ValueError" /\ out.form = "none")

C2_Witness ==
  Done("energy_eigenvalue") /\ call.n = 0 /\ out.kind = "ValueError"

\* C3: energy_eigenvalue is strictly increasing in n (for 1 <= n1 < n2 the
\* energy returned for n1 is below the one returned for n2), and every
\* returned energy is strictly negative.
C3_EnergyMonotonic ==
  (Done("energy_eigenvalue") /\ out.kind = "value") =>
    /\ RatLt(out.val, RatZero)
    /\ (prev.fn = "energy_eigenvalue" /\ prev.n < call.n) => RatLt(prev.val, out.val)
    /\ (prev.fn = "energy_eigenvalue" /\ call.n < prev.n) => RatLt(out.val, prev.val)

C3_Witness ==
  Done("energy_eigenvalue") /\ out.kind = "value" /\ call.n = 3
    /\ prev.fn = "energy_eigenvalue" /\ prev.n = 2 /\ RatLt(prev.val, out.val)

\* C4: hydrogen_radial(r, n, l) raises ValueError if and only if n < 1 or
\* l < 0 or l >= n, whatever r is; for n >= 1 and 0 <= l < n it returns a
\* value and raises nothing.
C4_RadialGuard ==
  Done("hydrogen_radial") =>
    /\ (out.kind = "ValueError") <=> ~ValidNL(call.n, call.l)
    /\ ValidNL(call.n, call.l) => (out.kind = "value" /\ out.form = "radial")

C4_Witness ==
  Done("hydrogen_radial") /\ call.n = 3 /\ call.l = 2 /\ call.r = <<0 - 1, 2>>
    /\ out.kind = "value" /\ out.R.sign = 1 /\ FLt(FZero, out.R.mag[1])

\* C5: spherical_harmonic raises ValueError whenever |m| > l, which includes
\* every call with l < 0; whenever l >= 0 and |m| <= l it raises nothing and
\* returns sph_harm(m, l, phi, theta).
C5_SphericalHarmonicGuard ==
  Done("spherical_harmonic") =>
    /\ (Abs(call.m) > call.l) => out.kind = "ValueError"
    /\ (call.l < 0) => out.kind = "ValueError"
    /\ (call.l >= 0 /\ Abs(call.m) <= call.l) =>
         /\ out.kind = "value"
         /\ out.form = "sph"
         /\ out.sph = [m |-> call.m, n |-> call.l, theta |-> call.phi, phi |-> call.theta]

C5_Witness ==
  Done("spherical_harmonic") /\ call.l = 1 /\ call.m = 0 - 1
    /\ call.theta = 1 /\ call.phi = 2 /\ out.kind = "value"
    /\ out.sph.theta = 2 /\ out.sph.phi = 1

C8_ExpectationROrder ==
  (Done("expectation_value_r") /\ ValidNL(call.n, call.l) /\ out.kind = "value") =>
    /\ RatLt(RatZero, out.val)
    /\ (prev.fn = "expectation_value_r" /\ prev.n = call.n /\ ValidNL(prev.n, prev.l)
          /\ prev.l < call.l) => RatLt(out.val, prev.val)
    /\ (prev.fn = "expectation_value_r" /\ prev.n = call.n /\ ValidNL(prev.n, prev.l)
          /\ call.l < prev.l) => RatLt(prev.val, out.val)

C8_Witness ==
  Done("expectation_value_r") /\ call.n = 2 /\ call.l = 1 /\ out.kind = "value"
    /\ prev.fn = "expectation_value_r" /\ prev.n = 2 /\ prev.l = 0
    /\ RatLt(out.val, prev.val) /\ RatLt(RatZero, out.val)

\* C9: for n_upper > n_lower >= 1, calculate_transition_energy returns
\* E_trans = 27.211 * (1/(2*n_lower^2) - 1/(2*n_upper^2)) > 0 and the
\* wavelength 1240 / E_trans > 0, with no division by zero; for (3, 2) about
\* 1.89 eV and 656 nm.  When n_upper <= n_lower it raises ValueError before
\* any energy is computed.
C9_TransitionEnergy ==
  Done("calculate_transition_energy") =>
    /\ (call.n > call.l /\ call.l >= 1) =>
         /\ out.kind = "value"
         /\ out.form = "pair"
         /\ out.val = Rat(27211 * (call.n * call.n - call.l * call.l),
                          2000 * call.l * call.l * call.n * call.n)
         /\ RatLt(RatZero, out.val)
         /\ RatLt(RatZero, out.val2)
         /\ RatMul(out.val2, out.val) = RatInt(1240)
    /\ (call.n = 3 /\ call.l = 2) =>
         /\ RatLt(<<1885, 1000>>, out.val) /\ RatLt(out.val, <<1895, 1000>>)
         /\ RatLt(<<6555, 10>>, out.val2) /\ RatLt(out.val2, <<6565, 10>>)
    /\ (call.n <= call.l) => (out.kind = "ValueError" /\ out.ecalls = 0)
    /\ out.kind # "ZeroDivisionError"

C9_Witness ==
  Done("calculate_transition_energy") /\ call.n = 3 /\ call.l = 2
    /\ out.kind = "value" /\ out.val = <<27211, 14400>> /\ out.ecalls = 2

(***************************************************************************)
(* The quantum numbers a call was given violate n >= 1, 0 <= l < n or      *)
(* |m| <= l, as far as the function called takes them.                     *)
(***************************************************************************)
TakesNL ==
  {"hydrogen_radial", "probability_density_radial", "normalization_check",
   "expectation_value_r", "expectation_value_r_squared", "uncertainty_r"}

InvalidQuantumNumbers ==
  \/ call.fn = "energy_eigenvalue" /\ call.n < 1
  \/ call.fn \in TakesNL /\ ~ValidNL(call.n, call.l)
  \/ call.fn = "spherical_harmonic" /\ Abs(call.m) > call.l
  \/ call.fn = "hydrogen_wavefunction"
       /\ (~ValidNL(call.n, call.l) \/ Abs(call.m) > call.l)

\* C6: every library function that takes quantum numbers, called with
\* integers violating n >= 1, 0 <= l < n or |m| <= l, raises ValueError: it
\* never returns a value and never raises another kind of error.
C6_SingleErrorKind ==
  (pc = "done" /\ InvalidQuantumNumbers) => out.kind = "ValueError"

(***************************************************************************)
(* The tolerance 1e-2 around 1, for a float known by its enclosure.        *)
(***************************************************************************)
TolLow == IRat(99, 100)
TolHigh == IRat(101, 100)

\* every number of the enclosure is in [0.99, 1.01]
SurelyWithinTol(x) == FLe(TolLow[2], x[1]) /\ FLe(x[2], TolHigh[1])

\* some number of the enclosure may be in [0.99, 1.01]
MaybeWithinTol(x) == ~FLt(x[2], TolLow[1]) /\ ~FLt(TolHigh[2], x[1])

\* C10 as stated: for all valid (n, l), normalization_check(n, l) with the
\* defaults r_max = 50 and 1000 points is within 1e-2 of 1.
C10_NormalizedAllShells ==
  (Done("normalization_check") /\ ValidNL(call.n, call.l)) =>
    (out.kind = "value" /\ MaybeWithinTol(out.iv))

\* C10 as amended: for all valid (n, l) with n <= 4, normalization_check(n, l)
\* with the defaults is within 1e-2 of 1 (and no partial sum of the rule is
\* above 1.01).
C10_NormalizedInnerShells ==
  /\ (Done("normalization_check") /\ ValidNL(call.n, call.l) /\ call.n <= 4) =>
       (out.kind = "value" /\ out.form = "interval" /\ SurelyWithinTol(out.iv))
  /\ (pc = "integrating" /\ call.n <= 4) => FLe(grid.acc[2], TolHigh[1])

C10_Witness ==
  Done("normalization_check") /\ call.n = 4 /\ call.l = 0 /\ out.kind = "value"
    /\ SurelyWithinTol(out.iv) /\ FLt(out.iv[2], FOne)

\* C11 as stated: every call of solve_radial_schrodinger and of
\* RadialSolver.shooting_method returns no result at all (neither a
\* wavefunction nor an eigenvalue) and raises no error, whatever its arguments.
C11_SolversReturnNothing ==
  (pc = "done" /\ call.fn \in {"solve_radial_schrodinger", "shooting_method"}) =>
    (out.kind = "value" /\ out.form = "None")

\* C11 as amended: for n >= 1 solve_radial_schrodinger returns no wavefunction
\* but the pair (None, energy_eigenvalue(n)) = (None, -1/(2*n^2)), and
\* shooting_method returns None; for n < 1 both raise the ValueError of
\* energy_eigenvalue; r, l and V_func have no effect.
C11_SolverPlaceholders ==
  /\ Done("solve_radial_schrodinger") =>
       /\ (call.n >= 1) =>
            /\ out.kind = "value"
            /\ out.form = "None, E"
            /\ out.val = Rat(0 - 1, 2 * call.n * call.n)
       /\ (call.n < 1) => out.kind = "ValueError"
       /\ out = solve_radial_schrodinger(RatZero, call.n, 0, "None")
  /\ Done("shooting_method") =>
       /\ (call.n >= 1) => (out.kind = "value" /\ out.form = "None")
       /\ (call.n < 1) => out.kind = "ValueError"

C11_Witness ==
  Done("solve_radial_schrodinger") /\ call.n = 2 /\ call.l = 5
    /\ call.V_func = "callable" /\ call.r = <<3, 2>>
    /\ out.kind = "value" /\ out.form = "None, E" /\ out.val = <<0 - 1, 8>>

====
